---- MODULE Spec2Model ----
(***************************************************************************)
(* Model of backend/utils.py of the recipe chatbot: the module-level       *)
(* constants SYSTEM_PROMPT and MODEL_NAME, and get_agent_response, the     *)
(* wrapper that normalises a conversation history, calls                   *)
(* litellm.completion once and returns the history extended with the       *)
(* assistant's reply.                                                      *)
(*                                                                         *)
(* Python lists are objects: the model keeps a heap of list objects so     *)
(* that aliasing (current_messages = messages) and allocation              *)
(* (list + list) are what the code makes them.  Text is a sequence of      *)
(* one-character strings, so that str.strip() is computed, not assumed.    *)
(***************************************************************************)
EXTENDS Integers, Sequences, FiniteSets, TLC

VARIABLES
    environ,          \* os.environ after load_dotenv
    SYSTEM_PROMPT,    \* module global, line 20
    MODEL_NAME,       \* module global, line 47
    heap,             \* list objects: object id -> sequence of messages
    frame,            \* per caller thread: the activation of get_agent_response
    appended,         \* per caller thread: appends the caller made to the returned list
    nInvocations,     \* invocations of get_agent_response started so far
    nProviderCalls    \* calls of litellm.completion made so far

vars == <<environ, SYSTEM_PROMPT, MODEL_NAME, heap, frame, appended,
          nInvocations, nProviderCalls>>

---------------------------------------------------------------------------
(* Bounds *)

MaxHist == 2          \* longest input history
MaxText == 3          \* longest provider reply text
ConcMaxHist == 1      \* longest input history, concurrent specification
ConcMaxText == 1      \* longest provider reply text, concurrent specification
MaxInvocations == 2   \* invocations in one behaviour
MaxAppends == 1       \* appends a caller makes to a returned list

---------------------------------------------------------------------------
(* Text *)

Char == {"a", " ", "\n"}
Whitespace == {" ", "\n"}

RECURSIVE TextsOfLen(_)
TextsOfLen(n) ==
    IF n = 0 THEN {<<>>}
    ELSE {<<c>> \o s : c \in Char, s \in TextsOfLen(n - 1)}

TextsUpTo(n) == UNION {TextsOfLen(k) : k \in 0..n}

\* str.lstrip() only: a strip that forgets the trailing side.
RECURSIVE LStripOnly(_)
LStripOnly(s) ==
    IF s # <<>> /\ Head(s) \in Whitespace THEN LStripOnly(Tail(s)) ELSE s

RECURSIVE LStrip(_)
LStrip(s) ==
    IF s # <<>> /\ Head(s) \in Whitespace THEN LStrip(Tail(s)) ELSE s

RECURSIVE RStrip(_)
RStrip(s) ==
    IF s # <<>> /\ s[Len(s)] \in Whitespace
    THEN RStrip(SubSeq(s, 1, Len(s) - 1))
    ELSE s

\* str.strip() with no argument, line 88
Strip(s) == RStrip(LStrip(s))

---------------------------------------------------------------------------
(* Module-level configuration, lines 16-53 *)

DefaultModel == "gpt-3.5-turbo"

\* The long literal of lines 25-43, abridged; like the literal it starts and
\* ends with whitespace.
SystemPromptText == <<"\n", "c", "h", "e", "f", "\n">>

\* Environments: a mapping from variable names to strings in which
\* MODEL_NAME is absent, empty or set.
EnvBase == [PATH |-> "/usr/bin"]
Environments ==
    {EnvBase} \cup
    {[PATH |-> "/usr/bin", MODEL_NAME |-> v] : v \in {"", "gpt-4o-mini"}}

\* A .env file: the assignments it holds (none when there is no file).
NoAssignments == [k \in {} |-> ""]
DotenvFiles == {NoAssignments} \cup {[MODEL_NAME |-> v] : v \in {"", "gpt-4o-mini"}}

\* load_dotenv(override=False): a variable of the file is set only when the
\* process environment does not already have it.
LoadDotenv(env, file) ==
    [k \in DOMAIN env \cup DOMAIN file |->
        IF k \in DOMAIN env THEN env[k] ELSE file[k]]

\* A default that also replaces the empty string (environ.get(k) or default).
EnvironGetOrDefault(env, key, default) ==
    IF key \in DOMAIN env /\ env[key] # "" THEN env[key] ELSE default

\* os.environ.get(key, default)
EnvironGet(env, key, default) ==
    IF key \in DOMAIN env THEN env[key] ELSE default

\* Python's `a and b` where a is a Path: a Path is always truthy.
PathIsTruthy == TRUE

\* The expression of lines 47-53.
ResolveModelName(env) ==
    IF PathIsTruthy THEN EnvironGet(env, "MODEL_NAME", DefaultModel)
    ELSE "<Path>"

---------------------------------------------------------------------------
(* Messages and histories *)

Msg(r, c) == [role |-> r, content |-> c]

SystemMessage == Msg("system", SYSTEM_PROMPT)

\* The messages callers put in a history.
Messages ==
    {Msg("system", SystemPromptText), Msg("system", <<"C">>),
     Msg("user", <<"h", "i">>), Msg("assistant", <<"a">>)}

\* The messages of the concurrent callers' histories.
ConcMessages == {Msg("system", <<"C">>), Msg("user", <<"h", "i">>)}

RECURSIVE HistoriesOfLen(_, _)
HistoriesOfLen(M, n) ==
    IF n = 0 THEN {<<>>}
    ELSE {<<m>> \o h : m \in M, h \in HistoriesOfLen(M, n - 1)}

Histories(M, n) == UNION {HistoriesOfLen(M, k) : k \in 0..n}

\* The message a caller appends to a history it got back.
NextUserMessage == Msg("user", <<"h", "i">>)

---------------------------------------------------------------------------
(* Threads and list objects *)

Threads == {"t1", "t2"}

CallerLists == {<<"caller", "L1">>, <<"caller", "L2">>}
NoRef == <<"None", "None">>
NewCurrent(t) == <<t, "current_messages">>
NewUpdated(t) == <<t, "updated_messages">>

Alloc(h, ref, list) == (ref :> list) @@ h
Free(h, refs) == [o \in DOMAIN h \ refs |-> h[o]]

---------------------------------------------------------------------------
(* The provider: litellm.completion *)

\* Exceptions litellm.completion raises.
ProviderExceptions == {"Timeout", "RateLimitError", "AuthenticationError"}

NoCompletion == [none |-> TRUE]
NoRequest == [none |-> TRUE]

StrContent(s) == [type |-> "str", text |-> s]
\* content: null (a tool call), or a list of content parts
NonTextContents == {[type |-> "NoneType"], [type |-> "list"]}

Choice(i, c) == [index |-> i, message |-> [role |-> "assistant", content |-> c]]

\* Responses that lack the expected shape, one per place the shape can break.
NoChoices == [model |-> "m"]
EmptyChoices == [model |-> "m", choices |-> <<>>]
NoMessage == [model |-> "m", choices |-> <<[index |-> 0]>>]
NoContent ==
    [model |-> "m", choices |-> <<[index |-> 0, message |-> [role |-> "assistant"]]>>]
NonText ==
    {[model |-> "m", choices |-> <<Choice(0, c)>>] : c \in NonTextContents}

MalformedResponses == {NoChoices, EmptyChoices, NoMessage, NoContent} \cup NonText

\* Well-formed responses: one choice, or two whose second has other content.
WellFormedResponses(n) ==
    {[model |-> "m", choices |-> <<Choice(0, StrContent(s))>>] : s \in TextsUpTo(n)}
    \cup
    {[model |-> "m",
      choices |-> <<Choice(0, StrContent(s)), Choice(1, StrContent(<<"a", "a">>))>>] :
        s \in TextsUpTo(1)}

Responses(n) == MalformedResponses \cup WellFormedResponses(n)

---------------------------------------------------------------------------
(* get_agent_response, lines 58-93 *)

\* The activation record: the locals of get_agent_response, the request it
\* made, what litellm.completion raised (provider_exc) or returned
\* (completion), what the function raised (exc) or returned (result), and
\* arg, the value the caller's list had when the call was made.
IdleFrame ==
    [pc |-> "idle", messages |-> NoRef, arg |-> <<>>, current_messages |-> NoRef,
     request |-> NoRequest, calls |-> 0, provider_exc |-> "",
     completion |-> NoCompletion, exc |-> "", result |-> NoRef]

Ok(v) == [exc |-> "", value |-> v]
Raise(e) == [exc |-> e, value |-> <<>>]

\* Prepends only to an empty history.
NeedsSystemPromptEmptyOnly(messages) == Len(messages) = 0

\* Prepends to every history.
NeedsSystemPromptAlways(messages) == TRUE

\* The condition of line 76: `not messages or messages[0]["role"] != "system"`.
NeedsSystemPrompt(messages) ==
    Len(messages) = 0 \/ messages[1].role # "system"

\* A lookup with defaults (dict.get(key, "")): a missing part reads as "".
ExtractReplyLenient(completion) ==
    IF "choices" \notin DOMAIN completion \/ Len(completion.choices) = 0
    THEN Ok(<<>>)
    ELSE LET choice == completion.choices[1] IN
         IF "message" \notin DOMAIN choice \/ "content" \notin DOMAIN choice.message
            \/ choice.message.content.type # "str"
         THEN Ok(<<>>)
         ELSE Ok(Strip(choice.message.content.text))

\* Lines 86-89: completion["choices"][0]["message"]["content"].strip(),
\* evaluated left to right; each subscript or attribute raises where the
\* value has no such part.
ExtractReply(completion) ==
    IF "choices" \notin DOMAIN completion THEN Raise("KeyError")
    ELSE IF Len(completion.choices) = 0 THEN Raise("IndexError")
    ELSE LET choice == completion.choices[1] IN
         IF "message" \notin DOMAIN choice THEN Raise("KeyError")
         ELSE IF "content" \notin DOMAIN choice.message THEN Raise("KeyError")
         ELSE IF choice.message.content.type # "str" THEN Raise("AttributeError")
         ELSE Ok(Strip(choice.message.content.text))

\* Returns the reply alone.
UpdatedMessagesReplyOnly(current, content) == <<Msg("assistant", content)>>

\* Line 92: current_messages + [{"role": "assistant", "content": ...}]
UpdatedMessages(current, content) == current \o <<Msg("assistant", content)>>

Init ==
    /\ \E env \in Environments, file \in DotenvFiles :
           environ = LoadDotenv(env, file)
    /\ SYSTEM_PROMPT = SystemPromptText
    /\ MODEL_NAME = ResolveModelName(environ)
    /\ \E h \in Histories(Messages, MaxHist) : heap = (<<"caller", "L1">> :> h)
    /\ frame = [t \in Threads |-> IdleFrame]
    /\ appended = [t \in Threads |-> 0]
    /\ nInvocations = 0
    /\ nProviderCalls = 0

InitConc ==
    /\ \E env \in Environments, file \in DotenvFiles :
           environ = LoadDotenv(env, file)
    /\ SYSTEM_PROMPT = SystemPromptText
    /\ MODEL_NAME = ResolveModelName(environ)
    /\ \E h1, h2 \in Histories(ConcMessages, ConcMaxHist) :
           heap = (<<"caller", "L1">> :> h1) @@ (<<"caller", "L2">> :> h2)
    /\ frame = [t \in Threads |-> IdleFrame]
    /\ appended = [t \in Threads |-> 0]
    /\ nInvocations = 0
    /\ nProviderCalls = 0

\* messages.insert(0, system message): normalisation in place.
NormalizeInPlace(t, ref) ==
    /\ frame[t].pc = "idle"
    /\ ref \in CallerLists \cap DOMAIN heap
    /\ nInvocations < MaxInvocations
    /\ heap' = IF NeedsSystemPrompt(heap[ref])
               THEN [heap EXCEPT ![ref] = <<SystemMessage>> \o @]
               ELSE heap
    /\ frame' = [frame EXCEPT ![t] =
                    [IdleFrame EXCEPT !.pc = "normalized", !.messages = ref,
                                      !.arg = heap[ref], !.current_messages = ref]]
    /\ nInvocations' = nInvocations + 1
    /\ UNCHANGED <<environ, SYSTEM_PROMPT, MODEL_NAME, appended, nProviderCalls>>

\* Lines 58-79: the caller invokes get_agent_response with the list ref;
\* current_messages is a new list when the system message is prepended and
\* the caller's own list otherwise.
Normalize(t, ref) ==
    /\ frame[t].pc = "idle"
    /\ ref \in CallerLists \cap DOMAIN heap
    /\ nInvocations < MaxInvocations
    /\ LET messages == heap[ref]
           prepend == NeedsSystemPrompt(messages)
           current == IF prepend THEN NewCurrent(t) ELSE ref
       IN /\ heap' = IF prepend
                     THEN Alloc(heap, current, <<SystemMessage>> \o messages)
                     ELSE heap
          /\ frame' = [frame EXCEPT ![t] =
                          [IdleFrame EXCEPT !.pc = "normalized", !.messages = ref,
                                            !.arg = messages,
                                            !.current_messages = current]]
    /\ nInvocations' = nInvocations + 1
    /\ UNCHANGED <<environ, SYSTEM_PROMPT, MODEL_NAME, appended, nProviderCalls>>

\* Lines 81-84: the call of litellm.completion is made; the provider gets the
\* model name and the messages the list holds at that moment.
CallProvider(t) ==
    /\ frame[t].pc = "normalized"
    /\ frame' = [frame EXCEPT
                    ![t].pc = "waiting",
                    ![t].request = [model |-> MODEL_NAME,
                                    messages |-> heap[frame[t].current_messages]],
                    ![t].calls = @ + 1]
    /\ nProviderCalls' = nProviderCalls + 1
    /\ UNCHANGED <<environ, SYSTEM_PROMPT, MODEL_NAME, heap, appended, nInvocations>>

\* The failed call is made again.
ProviderRaisesRetry(t, e) ==
    /\ frame[t].pc = "waiting"
    /\ frame[t].calls < 2
    /\ frame' = [frame EXCEPT ![t].calls = @ + 1, ![t].provider_exc = e]
    /\ nProviderCalls' = nProviderCalls + 1
    /\ UNCHANGED <<environ, SYSTEM_PROMPT, MODEL_NAME, heap, appended, nInvocations>>

\* The failure is caught and the history sent is returned as it is.
ProviderRaisesSwallowed(t, e) ==
    /\ frame[t].pc = "waiting"
    /\ frame' = [frame EXCEPT ![t].pc = "returned", ![t].provider_exc = e,
                              ![t].result = frame[t].current_messages]
    /\ UNCHANGED <<environ, SYSTEM_PROMPT, MODEL_NAME, heap, appended,
                   nInvocations, nProviderCalls>>

\* Lines 81-84, litellm.completion raises e: no handler encloses the call,
\* so e leaves get_agent_response as it is.
ProviderRaises(t, e) ==
    /\ frame[t].pc = "waiting"
    /\ frame' = [frame EXCEPT ![t].pc = "raised", ![t].provider_exc = e,
                              ![t].exc = e]
    /\ UNCHANGED <<environ, SYSTEM_PROMPT, MODEL_NAME, heap, appended,
                   nInvocations, nProviderCalls>>

\* current_messages.append(reply); return current_messages
ReturnInPlace(t, completion, content) ==
    /\ heap' = [heap EXCEPT ![frame[t].current_messages] =
                    UpdatedMessages(@, content)]
    /\ frame' = [frame EXCEPT ![t].pc = "returned", ![t].completion = completion,
                              ![t].result = frame[t].current_messages]

\* Lines 91-93: updated_messages is a new list, and it is returned.
Return(t, completion, content) ==
    /\ heap' = Alloc(heap, NewUpdated(t),
                     UpdatedMessages(heap[frame[t].current_messages], content))
    /\ frame' = [frame EXCEPT ![t].pc = "returned", ![t].completion = completion,
                              ![t].result = NewUpdated(t)]

\* Lines 86-93, litellm.completion returns completion: the reply is
\* extracted and stripped, or the extraction raises.
Receive(t, completion) ==
    /\ frame[t].pc = "waiting"
    /\ LET reply == ExtractReply(completion)
       IN IF reply.exc # ""
          THEN /\ frame' = [frame EXCEPT ![t].pc = "raised",
                                         ![t].completion = completion,
                                         ![t].exc = reply.exc]
               /\ heap' = heap
          ELSE Return(t, completion, reply.value)
    /\ UNCHANGED <<environ, SYSTEM_PROMPT, MODEL_NAME, appended,
                   nInvocations, nProviderCalls>>

\* The caller appends a message to the list it got back (list.append).
CallerAppends(t) ==
    /\ frame[t].pc = "returned"
    /\ appended[t] < MaxAppends
    /\ heap' = [heap EXCEPT ![frame[t].result] = Append(@, NextUserMessage)]
    /\ appended' = [appended EXCEPT ![t] = @ + 1]
    /\ UNCHANGED <<environ, SYSTEM_PROMPT, MODEL_NAME, frame,
                   nInvocations, nProviderCalls>>

\* The call is over and the caller lets go of what it returned: the lists
\* the call made are no longer reachable.
Release(t) ==
    /\ frame[t].pc \in {"returned", "raised"}
    /\ frame' = [frame EXCEPT ![t] = IdleFrame]
    /\ heap' = Free(heap, {NewCurrent(t), NewUpdated(t)})
    /\ appended' = [appended EXCEPT ![t] = 0]
    /\ UNCHANGED <<environ, SYSTEM_PROMPT, MODEL_NAME, nInvocations, nProviderCalls>>

\* One caller, one call after the other.
Next ==
    \/ Normalize("t1", <<"caller", "L1">>)
    \/ CallProvider("t1")
    \/ \E e \in ProviderExceptions : ProviderRaises("t1", e)
    \/ \E completion \in Responses(MaxText) : Receive("t1", completion)
    \/ CallerAppends("t1")
    \/ Release("t1")

Spec == Init /\ [][Next]_vars

\* Two callers at once, each with either of two lists.
NextConc ==
    \E t \in Threads :
        \/ \E ref \in CallerLists : Normalize(t, ref)
        \/ CallProvider(t)
        \/ \E e \in ProviderExceptions : ProviderRaises(t, e)
        \/ \E completion \in Responses(ConcMaxText) : Receive(t, completion)

SpecConc == InitConc /\ [][NextConc]_vars

---------------------------------------------------------------------------
(* What the claims say, stated over the state *)

Returned(t) == frame[t].pc = "returned"
Called(t) == frame[t].calls > 0
Sent(t) == frame[t].request.messages
StartsWithSystem(h) == Len(h) > 0 /\ h[1].role = "system"
FixedSystemMessage == [role |-> "system", content |-> SystemPromptText]

\* The response has the shape choices[0].message.content, a text.
IsWellFormed(c) ==
    /\ "choices" \in DOMAIN c
    /\ Len(c.choices) > 0
    /\ "message" \in DOMAIN c.choices[1]
    /\ "content" \in DOMAIN c.choices[1].message
    /\ c.choices[1].message.content.type = "str"

ReplyText(t) == frame[t].completion.choices[1].message.content.text

\* out is text without a leading and a trailing run of whitespace, and no
\* whitespace is left at either end of out.
IsTrimOf(out, text) ==
    /\ \E i, j \in 0..Len(text) :
          /\ i + j <= Len(text)
          /\ \A k \in 1..i : text[k] \in Whitespace
          /\ \A k \in (Len(text) - j + 1)..Len(text) : text[k] \in Whitespace
          /\ out = SubSeq(text, i + 1, Len(text) - j)
    /\ Len(out) > 0 => out[1] \notin Whitespace /\ out[Len(out)] \notin Whitespace

\* The exceptions the extraction of lines 86-89 raises: what the
\* specification calls MalformedResponseError.
MalformedResponseErrors == {"KeyError", "IndexError", "AttributeError"}

\* C1 (system-prepend): a history that is empty or does not start with a
\* system message is sent as the fixed system message followed by the
\* history in its order; the list sent starts with exactly one system
\* message, the fixed prompt, whatever roles come later in the history.
C1_SystemPrepend ==
    \A t \in Threads :
        (Called(t) /\ ~StartsWithSystem(frame[t].arg)) =>
            /\ Sent(t) = <<FixedSystemMessage>> \o frame[t].arg
            /\ Sent(t)[1] = FixedSystemMessage
            /\ Len(Sent(t)) > 1 => Sent(t)[2].role # "system"

\* C1 witness: a history [user, system] has been sent.
C1_Witness ==
    \E t \in Threads :
        /\ Called(t)
        /\ Len(frame[t].arg) = 2
        /\ frame[t].arg[1].role = "user"
        /\ frame[t].arg[2].role = "system"
        /\ Len(Sent(t)) = 3

\* C2 (no duplicate prepend): a history that starts with a system message,
\* whatever its content, is sent exactly as it is.
C2_NoDuplicatePrepend ==
    \A t \in Threads :
        (Called(t) /\ StartsWithSystem(frame[t].arg)) => Sent(t) = frame[t].arg

\* C2 witness: a history [system "C", user] has been sent.
C2_Witness ==
    \E t \in Threads :
        /\ Called(t)
        /\ Len(frame[t].arg) = 2
        /\ frame[t].arg[1] = Msg("system", <<"C">>)
        /\ frame[t].arg[2].role = "user"

\* C3 (length invariant): after a well-formed reply the call returns, and
\* the list returned is the list sent followed by one assistant message.
C3_LengthInvariant ==
    \A t \in Threads :
        /\ (frame[t].completion # NoCompletion /\ IsWellFormed(frame[t].completion))
              => Returned(t)
        /\ (Returned(t) /\ appended[t] = 0) =>
              LET out == heap[frame[t].result] IN
              /\ Len(out) = Len(Sent(t)) + 1
              /\ out[Len(out)].role = "assistant"
              /\ SubSeq(out, 1, Len(Sent(t))) = Sent(t)

\* C3 witness: a call with a two-message history needing the prepend returned.
C3_Witness ==
    \E t \in Threads :
        /\ Returned(t)
        /\ appended[t] = 0
        /\ Len(frame[t].arg) = 2
        /\ Len(heap[frame[t].result]) = 4

\* C4 (error propagation): when litellm.completion raises, the call raises
\* that exception, returns no list, and the caller's list is as it was.
C4_ErrorPropagation ==
    \A t \in Threads :
        frame[t].provider_exc # "" =>
            /\ frame[t].pc = "raised"
            /\ frame[t].exc = frame[t].provider_exc
            /\ frame[t].exc \in ProviderExceptions
            /\ frame[t].result = NoRef
            /\ NewUpdated(t) \notin DOMAIN heap
            /\ heap[frame[t].messages] = frame[t].arg

\* C4 witness: the provider timed out on a call with a non-empty history.
C4_Witness ==
    \E t \in Threads :
        /\ frame[t].provider_exc = "Timeout"
        /\ frame[t].pc = "raised"
        /\ Len(frame[t].arg) > 0

C6_SingleShot ==
    /\ \A t \in Threads :
          /\ frame[t].pc \in {"idle", "normalized"} => frame[t].calls = 0
          /\ frame[t].pc \in {"waiting", "returned", "raised"} => frame[t].calls = 1
          /\ frame[t].pc \in {"idle", "normalized", "waiting"} =>
                frame[t].result = NoRef
    /\ nProviderCalls =
          nInvocations - Cardinality({t \in Threads : frame[t].pc = "normalized"})

\* C6 witness: the second of two invocations has failed on a malformed
\* response, and two provider calls were made in all.
C6_Witness ==
    /\ nInvocations = 2
    /\ nProviderCalls = 2
    /\ frame["t1"].pc = "raised"
    /\ frame["t1"].exc = "KeyError"

\* C7 as stated: the model is the default when MODEL_NAME is absent and
\* when it is empty, the variable's value otherwise, and it is the model of
\* every request.
C7_DefaultWhenAbsentOrEmpty ==
    /\ MODEL_NAME =
          IF "MODEL_NAME" \in DOMAIN environ /\ environ["MODEL_NAME"] # ""
          THEN environ["MODEL_NAME"]
          ELSE "gpt-3.5-turbo"
    /\ \A t \in Threads : Called(t) => frame[t].request.model = MODEL_NAME

\* C7 as amended: the model is the default only when MODEL_NAME is absent;
\* when it is set, to the empty string too, the model is the variable's
\* value; and that value is the model of every request.
C7_DefaultWhenAbsent ==
    /\ MODEL_NAME =
          IF "MODEL_NAME" \in DOMAIN environ
          THEN environ["MODEL_NAME"]
          ELSE "gpt-3.5-turbo"
    /\ \A t \in Threads : Called(t) => frame[t].request.model = MODEL_NAME

\* C7 witness: MODEL_NAME is set to the empty string and a request was made
\* with the empty model name.
C7_Witness ==
    \E t \in Threads :
        /\ "MODEL_NAME" \in DOMAIN environ
        /\ environ["MODEL_NAME"] = ""
        /\ Called(t)
        /\ frame[t].request.model = ""

\* C8 (trim): the content of the appended assistant message is the first
\* choice's text without its leading and trailing whitespace, the rest as
\* it was; a text of whitespace alone gives the empty content.
C8_Trim ==
    \A t \in Threads :
        (Returned(t) /\ appended[t] = 0) =>
            LET out == heap[frame[t].result]
                content == out[Len(out)].content
            IN /\ IsTrimOf(content, ReplyText(t))
               /\ (\A k \in 1..Len(ReplyText(t)) : ReplyText(t)[k] \in Whitespace)
                     => content = <<>>

\* C8 witness: the reply " a\n" was appended as "a".
C8_Witness ==
    \E t \in Threads :
        /\ Returned(t)
        /\ appended[t] = 0
        /\ ReplyText(t) = <<" ", "a", "\n">>
        /\ heap[frame[t].result][Len(heap[frame[t].result])].content = <<"a">>

\* What an invocation sends and returns, from its own input and reply alone.
ExpectedSent(h) == IF StartsWithSystem(h) THEN h ELSE <<FixedSystemMessage>> \o h

OwnRequestAndResult(t) ==
    /\ Called(t) =>
          /\ Sent(t) = ExpectedSent(frame[t].arg)
          /\ frame[t].request.model = MODEL_NAME
    /\ Returned(t) =>
          LET out == heap[frame[t].result] IN
          /\ SubSeq(out, 1, Len(out) - 1) = ExpectedSent(frame[t].arg)
          /\ out[Len(out)].role = "assistant"
          /\ IsTrimOf(out[Len(out)].content, ReplyText(t))

\* No step changes the module globals, the environment or a list that
\* exists, and a step changes the frame of one invocation only.
NoSharedWrite ==
    /\ SYSTEM_PROMPT' = SYSTEM_PROMPT
    /\ MODEL_NAME' = MODEL_NAME
    /\ environ' = environ
    /\ \A o \in DOMAIN heap : o \in DOMAIN heap' /\ heap'[o] = heap[o]
    /\ \A t, u \in Threads :
          (t # u /\ frame'[t] # frame[t]) => frame'[u] = frame[u]

\* C9 (independent invocations): under every interleaving no invocation
\* writes shared state, SYSTEM_PROMPT and MODEL_NAME keep their startup
\* values, and each invocation's request and result are those its own
\* history and reply determine.
C9_Independent ==
    /\ [](SYSTEM_PROMPT = SystemPromptText /\ \A t \in Threads : OwnRequestAndResult(t))
    /\ [][NoSharedWrite]_vars

\* C9 witness: two invocations given the same list have both returned, with
\* different replies.
C9_Witness ==
    /\ Returned("t1")
    /\ Returned("t2")
    /\ frame["t1"].messages = frame["t2"].messages
    /\ ReplyText("t1") = <<"a">>
    /\ ReplyText("t2") = <<" ">>

\* C10 (caller's history not mutated, result a new sequence): after a call
\* returned, in either branch of the normalisation, the caller's list is as
\* it was before the call, the list returned is another list, and this stays
\* so when the caller appends to the list returned.
C10_CallerListUntouched ==
    \A t \in Threads :
        Returned(t) =>
            /\ heap[frame[t].messages] = frame[t].arg
            /\ frame[t].result # frame[t].messages
            /\ frame[t].result \notin CallerLists

\* C10 witness: the history started with a system message, so the list sent
\* was the caller's own, and the caller has appended to the list returned.
C10_Witness ==
    \E t \in Threads :
        /\ Returned(t)
        /\ frame[t].current_messages = frame[t].messages
        /\ Len(frame[t].arg) = 2
        /\ appended[t] = 1

====
